---- MODULE Spec2Model ----
(***************************************************************************)
(* A model of colorline.py: make_segments, colorline and clear_frame, the  *)
(* pyplot state they act on (the axes, the current axes, the collections   *)
(* registered on each axes) and the objects they create or share           *)
(* (LineCollection and Normalize instances).                               *)
(*                                                                         *)
(* Numbers that are floats in the program are exact rationals <<n, d>>     *)
(* with d > 0.  Python sequences and 1-D arrays are TLA+ sequences, so a   *)
(* Python index i is the TLA+ index i + 1.                                 *)
(***************************************************************************)
EXTENDS Integers, Sequences, FiniteSets, TLC

VARIABLES
    pc,        \* position of the driver: "start" | "done" | "run"
    args,      \* the arguments of the call under way / made last
    segs,      \* the value make_segments returned (SpecSeg)
    lcs,       \* heap of LineCollection objects; a handle is an index
    norms,     \* heap of Normalize objects; a reference is an index
    axes,      \* the axes that exist, in creation order
    current,   \* index of pyplot's current axes, 0 when there is none
    ret,       \* what the last operation did and returned
    callLog    \* history: the successful colorline calls, in call order

vars == <<pc, args, segs, lcs, norms, axes, current, ret, callLog>>

----------------------------------------------------------------------------
(* Bounds of the model *)

\* longest coordinate sequence tried by the make_segments specification
MaxLen == 4
\* x coordinates are drawn from 0..MaxX
MaxX == 3
\* y coordinates are drawn from 0..MaxY
MaxY == 1
\* most points of a curve given to a single colorline call
MaxPts == 4
\* longest z sequence given to a single colorline call
MaxZ == 3
\* most collections created in a session
MaxCalls == 2
\* most axes created in a session
MaxAxes == 2

----------------------------------------------------------------------------
(* Helpers *)

\* all sequences over S of length 0..n
SeqsUpTo(S, n) == UNION {[1..k -> S] : k \in 0..n}

Min(a, b) == IF a <= b THEN a ELSE b

\* equality and difference of rationals <<n, d>>
RatEq(a, b) == a[1] * b[2] = b[1] * a[2]
RatSub(a, b) == <<a[1] * b[2] - b[1] * a[2], a[2] * b[2]>>

----------------------------------------------------------------------------
(* make_segments *)

\* What np.array([x, y]) does with sequences of different lengths depends on
\* the numpy the script runs on: the releases before 1.24 (all those that run
\* this Python 2 source) build a 1-D object array, the later ones raise
\* ValueError.  Both outcomes are kept.
RaggedOutcomes == {"object", "raise"}

\* np.array([x, y]).T.reshape(-1, 1, 2): one point per index when x and y
\* have the same length.  A ragged object array holds the two sequences,
\* .T leaves it alone and reshape(-1, 1, 2) makes it ONE row whose two
\* entries are x and y themselves.
Points(x, y) ==
    IF Len(x) = Len(y)
    THEN [i \in 1..Len(x) |-> <<x[i], y[i]>>]
    ELSE << <<x, y>> >>

\* points[:-1]
DropLast(points) == SubSeq(points, 1, Len(points) - 1)

\* a slip: points[:-1] used for both halves of a segment
DropFirst_same(points) == SubSeq(points, 1, Len(points) - 1)

\* points[1:]
DropFirst(points) == SubSeq(points, 2, Len(points))

\* np.concatenate([a, b], axis=1): row i is the two points a[i], b[i]
ConcatAxis1(a, b) == [i \in 1..Len(a) |-> <<a[i], b[i]>>]

\* a slip: the curve is closed, the last point is joined to the first
make_segments_closed(x, y) ==
    LET points == Points(x, y)
    IN  [i \in 1..Len(points) |-> <<points[i], points[(i % Len(points)) + 1]>>]

make_segments(x, y) ==
    LET points == Points(x, y)
    IN  ConcatAxis1(DropLast(points), DropFirst(points))

\* a call of make_segments: the value returned, or the error raised
MakeSegmentsCall(x, y, ragged) ==
    IF Len(x) # Len(y) /\ ragged = "raise"
    THEN [status |-> "error", value |-> <<>>]
    ELSE [status |-> "ok", value |-> make_segments(x, y)]

----------------------------------------------------------------------------
(* The make_segments specification: equal-length inputs, one application *)

NoCall == [status |-> "none", value |-> <<>>]
NoRet == [op |-> "none", status |-> "none", value |-> 0, arg |-> 0]

EqualLengthInputs ==
    UNION {[x : [1..n -> 0..MaxX], y : [1..n -> 0..MaxY]] : n \in 0..MaxLen}

InitSeg ==
    /\ pc = "start"
    /\ args \in EqualLengthInputs
    /\ segs = NoCall
    /\ lcs = <<>>
    /\ norms = <<>>
    /\ axes = <<>>
    /\ current = 0
    /\ ret = NoRet
    /\ callLog = <<>>

MakeSegments ==
    /\ pc = "start"
    /\ \E ragged \in RaggedOutcomes :
         segs' = MakeSegmentsCall(args.x, args.y, ragged)
    /\ pc' = "done"
    /\ UNCHANGED <<args, lcs, norms, axes, current, ret, callLog>>

NextSeg == MakeSegments

SpecSeg == InitSeg /\ [][NextSeg]_vars

\* C1: for equal-length x and y of length N >= 2, make_segments returns
\* exactly N-1 segments and segment i (from 0) is the pair
\* [(x[i], y[i]), (x[i+1], y[i+1])], in input order; on x = [0,1,2,3],
\* y = [0,1,0,1] it returns (0,0)-(1,1), (1,1)-(2,0), (2,0)-(3,1).
C1_SegmentsAreConsecutivePairs ==
    (pc = "done" /\ Len(args.x) >= 2) =>
        /\ segs.status = "ok"
        /\ Len(segs.value) = Len(args.x) - 1
        /\ \A i \in 0..(Len(args.x) - 2) :
             segs.value[i + 1] = << <<args.x[i + 1], args.y[i + 1]>>,
                                    <<args.x[i + 2], args.y[i + 2]>> >>
        /\ (args.x = <<0, 1, 2, 3>> /\ args.y = <<0, 1, 0, 1>>) =>
             segs.value = << << <<0, 0>>, <<1, 1>> >>,
                             << <<1, 1>>, <<2, 0>> >>,
                             << <<2, 0>>, <<3, 1>> >> >>

C1_Witness ==
    /\ pc = "done"
    /\ args.x = <<0, 1, 2, 3>>
    /\ args.y = <<0, 1, 0, 1>>
    /\ Len(segs.value) = 3

\* C2: for equal-length x and y of length 0 or 1, make_segments returns an
\* empty segment sequence and does not fail.
C2_FewerThanTwoPointsNoSegments ==
    (pc = "done" /\ Len(args.x) < 2) =>
        (segs.status = "ok" /\ segs.value = <<>>)

C2_Witness ==
    /\ pc = "done"
    /\ Len(args.x) = 1
    /\ segs.status = "ok"
    /\ Len(segs.value) = 0

----------------------------------------------------------------------------
(* colorline: argument binding and the color-value array *)

\* An argument is a record [kind, v]: kind "omitted" (the caller left it
\* out), "none" (z is None), "scalar" (v holds one number) or "seq" (v is
\* the sequence).  A norm argument is [kind, vmin, vmax].
Omitted == [kind |-> "omitted", v |-> <<>>]
ZNone == [kind |-> "none", v |-> <<>>]
Scalar(n) == [kind |-> "scalar", v |-> <<n>>]
Sequence(s) == [kind |-> "seq", v |-> s]
NormOmitted == [kind |-> "omitted", vmin |-> 0, vmax |-> 1]
NormGiven(lo, hi) == [kind |-> "given", vmin |-> lo, vmax |-> hi]

\* the defaults of the signature: z=None, cmap=plt.get_cmap('copper'),
\* norm=plt.Normalize(0.0, 1.0), linewidth=3, alpha=1.0
DefaultLinewidth == 3
DefaultAlpha == <<1, 1>>
DefaultCmap == "copper"
\* The default norm is ONE Normalize object, built when the def statement
\* runs: it is the first object of the heap of norms.
DefaultNorm == 1
DefaultNormObject == [vmin |-> 0, vmax |-> 1]

BindZ(a) == IF a.z.kind = "omitted" THEN ZNone ELSE a.z

\* a slip: the linewidth argument is ignored
BindLinewidth_ignored(a) == Scalar(DefaultLinewidth)

BindLinewidth(a) ==
    IF a.linewidth.kind = "omitted" THEN Scalar(DefaultLinewidth) ELSE a.linewidth

BindAlpha(a) ==
    IF a.alpha.kind = "omitted" THEN Scalar(DefaultAlpha) ELSE a.alpha

BindCmap(a) == IF a.cmap = "omitted" THEN DefaultCmap ELSE a.cmap

\* np.linspace(0.0, 1.0, num): arange(num) * step with step = 1/(num - 1)
\* when num > 1 (and the last value set to the stop), arange(num) * 1
\* when num = 1, nothing when num = 0.
Linspace(num) ==
    [k \in 1..num |->
        IF num - 1 > 0
        THEN (IF k = num THEN <<1, 1>> ELSE <<k - 1, num - 1>>)
        ELSE <<k - 1, 1>>]

\* a slip: one default value per segment instead of one per point
ZArray_perSegment(z, x) ==
    IF z.kind = "none" THEN Linspace(Len(x) - 1) ELSE z.v

\* a slip: a scalar is repeated once per point
ZArray_broadcast(z, x) ==
    IF z.kind = "none" THEN Linspace(Len(x))
    ELSE IF z.kind = "scalar" THEN [k \in 1..Len(x) |-> z.v[1]]
    ELSE z.v

\* a slip: a short z is padded with its last value up to one per point
ZArray_padded(z, x) ==
    IF z.kind = "none" THEN Linspace(Len(x))
    ELSE IF Len(z.v) = 0 THEN z.v
    ELSE [k \in 1..(IF Len(x) > Len(z.v) THEN Len(x) ELSE Len(z.v)) |->
            z.v[Min(k, Len(z.v))]]

\* lines 78-85: the array handed to the collection
ZArray(z, x) ==
    IF z.kind = "none" THEN Linspace(Len(x))
    ELSE IF z.kind = "scalar" THEN <<z.v[1]>>
    ELSE z.v

\* LineCollection(segments, array=z, cmap=cmap, norm=norm,
\*                linewidth=linewidth, alpha=alpha)
\* norm is a reference to a Normalize object, not a copy of it.
LineCollection(segments, array, cmap, norm, linewidth, alpha) ==
    [segments |-> segments, array |-> array, cmap |-> cmap, norm |-> norm,
     linewidth |-> linewidth, alpha |-> alpha]

\* The color value the renderer uses for segment i (from 0) of a collection:
\* "an array of a smaller length, in which case the colors are repeated
\* along the curve".
SegmentColor(lc, i) == lc.array[(i % Len(lc.array)) + 1]

----------------------------------------------------------------------------
(* pyplot state *)

SpineNames == {"left", "right", "bottom", "top"}

\* a new axes: nothing registered, everything visible
NewAxes ==
    [collections |-> <<>>, xaxis |-> TRUE, yaxis |-> TRUE,
     spines |-> [s \in SpineNames |-> TRUE]]

\* plt.gca(): the current axes; one is created when there is none
GcaIndex == IF current = 0 THEN Len(axes) + 1 ELSE current
GcaAxes == IF current = 0 THEN Append(axes, NewAxes) ELSE axes

\* a slip: the collection goes to the first axes, not the current one
AddTarget_first == Min(1, GcaIndex)

\* line 90: ax = plt.gca()
AddTarget == GcaIndex

----------------------------------------------------------------------------
(* colorline *)

\* colorline(**a), with `ragged` the numpy outcome for unequal lengths.
\* Lines 78-85 bind z, line 87 builds the segments (and may raise), line 88
\* builds the collection, lines 90-91 add it to the current axes, line 93
\* returns it.  A norm the caller passes is an object the caller made.
Colorline(a, ragged) ==
    LET made == MakeSegmentsCall(a.x, a.y, ragged)
        normRef == IF a.norm.kind = "omitted" THEN DefaultNorm
                   ELSE Len(norms) + 1
        lc == LineCollection(made.value, ZArray(BindZ(a), a.x), BindCmap(a),
                             normRef, BindLinewidth(a), BindAlpha(a))
        handle == Len(lcs) + 1
    IN  IF made.status = "error"
        THEN /\ ret' = [op |-> "colorline", status |-> "error",
                        value |-> 0, arg |-> 0]
             /\ UNCHANGED <<lcs, norms, axes, current, callLog>>
        ELSE /\ lcs' = Append(lcs, lc)
             /\ norms' = IF a.norm.kind = "omitted" THEN norms
                         ELSE Append(norms, [vmin |-> a.norm.vmin,
                                             vmax |-> a.norm.vmax])
             /\ axes' = [GcaAxes EXCEPT ![AddTarget].collections =
                                            Append(@, handle)]
             /\ current' = GcaIndex
             /\ callLog' = Append(callLog, [ax |-> GcaIndex, handle |-> handle])
             /\ ret' = [op |-> "colorline", status |-> "ok",
                        value |-> handle, arg |-> 0]

----------------------------------------------------------------------------
(* The single-call specification: one colorline call on drawn arguments *)

\* x = 0, 1, 2, ... and y = 0, 1, 0, 1, ... of the given lengths
Ramp(n) == [i \in 1..n |-> i - 1]
ZigZag(n) == [i \in 1..n |-> (i - 1) % 2]

ZVals == {<<0, 1>>, <<1, 2>>, <<1, 1>>}

LineArgs ==
    [x : {Ramp(n) : n \in 0..MaxPts},
     y : {ZigZag(n) : n \in 0..MaxPts},
     z : {Omitted} \cup {Scalar(v) : v \in ZVals}
           \cup {Sequence(s) : s \in SeqsUpTo(ZVals, MaxZ)},
     cmap : {"omitted", "jet"},
     norm : {NormOmitted, NormGiven(0, 2)},
     linewidth : {Omitted, Scalar(8), Sequence(<<1, 2>>)},
     alpha : {Omitted, Scalar(<<3, 4>>)}]

\* pyplot after the module is loaded: the default norm exists; no call has
\* been made
InitPyplot ==
    /\ lcs = <<>>
    /\ norms = <<DefaultNormObject>>
    /\ ret = NoRet
    /\ callLog = <<>>
    /\ segs = NoCall

\* the call is made with or without an axes created before it
InitLine ==
    /\ pc = "start"
    /\ args \in LineArgs
    /\ InitPyplot
    /\ \E n \in 0..1 : axes = [i \in 1..n |-> NewAxes] /\ current = n

CallColorline ==
    /\ pc = "start"
    /\ \E ragged \in RaggedOutcomes : Colorline(args, ragged)
    /\ pc' = "done"
    /\ UNCHANGED <<args, segs>>

NextLine == CallColorline

SpecLine == InitLine /\ [][NextLine]_vars

\* the single call has returned a collection
Returned == pc = "done" /\ ret.op = "colorline" /\ ret.status = "ok"
TheLine == lcs[ret.value]

\* C3 (as amended): when z is omitted the array given to the collection has
\* length N = len(x); for N >= 2 it is evenly spaced, value k is k/(N-1),
\* the first is 0.0 and the last 1.0; for N = 1 it is the single value 0.0.
C3_DefaultZ ==
    (Returned /\ BindZ(args).kind = "none") =>
        LET N == Len(args.x)
            arr == TheLine.array
        IN  /\ Len(arr) = N
            /\ N >= 2 =>
                 /\ RatEq(arr[1], <<0, 1>>)
                 /\ RatEq(arr[N], <<1, 1>>)
                 /\ \A k \in 0..(N - 1) : RatEq(arr[k + 1], <<k, N - 1>>)
                 /\ \A k \in 1..(N - 2) :
                      RatEq(RatSub(arr[k + 1], arr[k]),
                            RatSub(arr[k + 2], arr[k + 1]))
            /\ N = 1 => RatEq(arr[1], <<0, 1>>)

C3_Witness ==
    /\ Returned
    /\ BindZ(args).kind = "none"
    /\ Len(args.x) = 4
    /\ Len(TheLine.array) = 4
    /\ TheLine.array[2] = <<1, 3>>

\* C3 as stated: for every N, N = 1 included, the array has length N, first
\* value 0.0 and last value 1.0.
C3_AsStated ==
    (Returned /\ BindZ(args).kind = "none") =>
        LET N == Len(args.x)
            arr == TheLine.array
        IN  /\ Len(arr) = N
            /\ N >= 1 => (RatEq(arr[1], <<0, 1>>) /\ RatEq(arr[N], <<1, 1>>))

\* C4: a scalar z gives the collection an array of exactly one element, that
\* scalar, whatever the number of points; a sequence z is passed on with its
\* length and element order unchanged.
C4_ScalarAndSequenceZ ==
    Returned =>
        /\ args.z.kind = "scalar" => TheLine.array = <<args.z.v[1]>>
        /\ args.z.kind = "seq" => TheLine.array = args.z.v

C4_Witness ==
    /\ Returned
    /\ args.z.kind = "scalar"
    /\ Len(args.x) = 4
    /\ Len(TheLine.segments) = 3
    /\ Len(TheLine.array) = 1

\* C5: with z a scalar or a sequence of length L >= 1 no longer than the
\* segment count N-1, the call makes N-1 segments and segment i is colored
\* by z[i mod L].
C5_Wraparound ==
    (Returned /\ args.z.kind \in {"scalar", "seq"}
              /\ Len(args.x) = Len(args.y)
              /\ Len(args.z.v) >= 1
              /\ Len(args.z.v) <= Len(args.x) - 1) =>
        /\ Len(TheLine.segments) = Len(args.x) - 1
        /\ \A i \in 0..(Len(args.x) - 2) :
             SegmentColor(TheLine, i) = args.z.v[(i % Len(args.z.v)) + 1]

C5_Witness ==
    /\ Returned
    /\ args.z.kind = "seq"
    /\ Len(args.z.v) = 2
    /\ args.z.v[1] # args.z.v[2]
    /\ Len(TheLine.segments) = 3
    /\ SegmentColor(TheLine, 2) = args.z.v[1]

\* What holds of the parameters in the first call of a session: the color
\* map, normalization, line width and alpha of the caller reach the
\* collection unmodified and no call is refused because of them; omitted,
\* they are line width 3, alpha 1.0 and a Normalize of [0.0, 1.0].
FirstCallParametersPassedThrough ==
    /\ (pc = "done" /\ Len(args.x) = Len(args.y)) => Returned
    /\ Returned =>
        /\ TheLine.cmap = (IF args.cmap = "omitted" THEN "copper" ELSE args.cmap)
        /\ TheLine.linewidth = (IF args.linewidth.kind = "omitted"
                                THEN [kind |-> "scalar", v |-> <<3>>]
                                ELSE args.linewidth)
        /\ TheLine.alpha = (IF args.alpha.kind = "omitted"
                            THEN [kind |-> "scalar", v |-> << <<1, 1>> >>]
                            ELSE args.alpha)
        /\ norms[TheLine.norm] = (IF args.norm.kind = "omitted"
                                  THEN [vmin |-> 0, vmax |-> 1]
                                  ELSE [vmin |-> args.norm.vmin,
                                        vmax |-> args.norm.vmax])

FirstCallParametersWitness ==
    /\ Returned
    /\ args.linewidth.kind = "seq"
    /\ args.alpha.kind = "scalar"
    /\ args.cmap = "jet"
    /\ args.norm.kind = "given"
    /\ TheLine.linewidth.v = <<1, 2>>

\* C10: a call with x and y of different lengths ends in a failure, returns
\* no collection and leaves the plotting surface unchanged.
C10_MismatchedLengthsFail ==
    (pc = "done" /\ Len(args.x) # Len(args.y)) =>
        /\ ret.status = "error"
        /\ lcs = <<>>
        /\ \A a \in 1..Len(axes) : axes[a].collections = <<>>

----------------------------------------------------------------------------
(* clear_frame *)

\* lines 98-99: the axes given, or plt.gca() when ax is None (0 here)
ClearTarget_current(ax) == GcaIndex

ClearTarget(ax) == IF ax = 0 THEN GcaIndex ELSE ax

\* lines 100-103: the x axis, the y axis and every spine are hidden
\* (dict.itervalues() is the Python 2 iteration over all the spines)
HideFrame_axesOnly(a) == [a EXCEPT !.xaxis = FALSE, !.yaxis = FALSE]

HideFrame(a) ==
    [a EXCEPT !.xaxis = FALSE, !.yaxis = FALSE,
              !.spines = [s \in SpineNames |-> FALSE]]

----------------------------------------------------------------------------
(* The session specification: any sequence of the operations *)

LeanArgs ==
    [x : {Ramp(3)},
     y : {ZigZag(3), ZigZag(4)},
     z : {Omitted},
     cmap : {"omitted"},
     norm : {NormOmitted, NormGiven(0, 3)},
     linewidth : {Omitted},
     alpha : {Omitted}]

Init ==
    /\ pc = "run"
    /\ args = [x |-> <<>>, y |-> <<>>]
    /\ InitPyplot
    /\ axes = <<>>
    /\ current = 0

\* fig, axes = plt.subplots(): a new figure with one axes, made current
Subplots ==
    /\ Len(axes) < MaxAxes
    /\ axes' = Append(axes, NewAxes)
    /\ current' = Len(axes) + 1
    /\ ret' = [op |-> "subplots", status |-> "ok",
               value |-> Len(axes) + 1, arg |-> 0]
    /\ UNCHANGED <<pc, args, segs, lcs, norms, callLog>>

CallColorlineAny ==
    /\ Len(lcs) < MaxCalls
    /\ (current # 0 \/ Len(axes) < MaxAxes)
    /\ \E a \in LeanArgs, ragged \in RaggedOutcomes :
         Colorline(a, ragged) /\ args' = a
    /\ UNCHANGED <<pc, segs>>

\* clear_frame(ax), ax = 0 standing for None
ClearFrame ==
    \E ax \in 0..Len(axes) :
        /\ (ax # 0 \/ current # 0 \/ Len(axes) < MaxAxes)
        /\ axes' = [(IF ax = 0 THEN GcaAxes ELSE axes)
                        EXCEPT ![ClearTarget(ax)] = HideFrame(@)]
        /\ current' = (IF ax = 0 THEN GcaIndex ELSE current)
        /\ ret' = [op |-> "clear_frame", status |-> "ok",
                   value |-> 0, arg |-> ax]
        /\ UNCHANGED <<pc, args, segs, lcs, norms, callLog>>

\* The caller changes a collection through the handle colorline returned:
\* lc.set_clim(0, 2), which lc forwards to the Normalize object it refers to.
SetClim ==
    \E h \in 1..Len(lcs) :
        /\ norms' = [norms EXCEPT ![lcs[h].norm] = [vmin |-> 0, vmax |-> 2]]
        /\ ret' = [op |-> "set_clim", status |-> "ok", value |-> h, arg |-> 0]
        /\ UNCHANGED <<pc, args, segs, lcs, axes, current, callLog>>

Next == Subplots \/ CallColorlineAny \/ ClearFrame \/ SetClim

Spec == Init /\ [][Next]_vars

\* the handles the log says were added to axes a, in call order
HandlesOn(a) ==
    LET on == SelectSeq(callLog, LAMBDA e : e.ax = a)
    IN  [i \in 1..Len(on) |-> on[i].handle]

\* C6: every successful colorline call registers exactly one new collection
\* on the axes that is current at call time and returns that collection:
\* after k successful calls k collections are registered, each axes holds
\* the collections of the calls made on it, in call order, and no two calls
\* share a collection.
C6_OneCollectionPerCall ==
    /\ Len(lcs) = Len(callLog)
    /\ \A a \in 1..Len(axes) : axes[a].collections = HandlesOn(a)
    /\ \A i, j \in 1..Len(callLog) :
         i # j => callLog[i].handle # callLog[j].handle
    /\ (ret.op = "colorline" /\ ret.status = "ok") =>
         /\ callLog[Len(callLog)].handle = ret.value
         /\ callLog[Len(callLog)].ax = current
         /\ LET on == axes[current].collections
            IN  Len(on) >= 1 /\ on[Len(on)] = ret.value

C6_Witness ==
    /\ ret.op = "colorline"
    /\ ret.status = "ok"
    /\ Len(callLog) = 2
    /\ Len(axes) = 2
    /\ callLog[1].ax = 2
    /\ callLog[2].ax = 2
    /\ lcs[1] = lcs[2]
    /\ axes[2].collections = <<1, 2>>
    /\ axes[1].collections = <<>>

\* what a collection is, as seen through its handle
View(h) == [lc |-> lcs[h], norm |-> norms[lcs[h].norm]]

\* C7: a colorline call leaves every collection registered before it
\* unchanged, and changing one collection through its handle (the bounds of
\* its normalization included) changes no other collection.
C7_CallsIndependent ==
    [][/\ ret'.op = "colorline" =>
            \A h \in 1..Len(lcs) : View(h)' = View(h)
       /\ ret'.op = "set_clim" =>
            \A h \in 1..Len(lcs) : h # ret'.value => View(h)' = View(h)]_vars

\* C8: in every call the color map, normalization, line width and alpha of
\* the caller reach the collection unmodified, and when they are omitted
\* the collection gets line width 3, alpha 1.0 and a normalization of
\* [0.0, 1.0].
C8_ParametersPassedThrough ==
    (ret.op = "colorline" /\ ret.status = "ok") =>
        LET lc == lcs[ret.value]
        IN  /\ lc.cmap = (IF args.cmap = "omitted" THEN "copper" ELSE args.cmap)
            /\ lc.linewidth = (IF args.linewidth.kind = "omitted"
                               THEN [kind |-> "scalar", v |-> <<3>>]
                               ELSE args.linewidth)
            /\ lc.alpha = (IF args.alpha.kind = "omitted"
                           THEN [kind |-> "scalar", v |-> << <<1, 1>> >>]
                           ELSE args.alpha)
            /\ norms[lc.norm] = (IF args.norm.kind = "omitted"
                                 THEN [vmin |-> 0, vmax |-> 1]
                                 ELSE [vmin |-> args.norm.vmin,
                                       vmax |-> args.norm.vmax])

\* C9: clear_frame(ax) hides the x axis, the y axis and every spine of the
\* axes given, or of the current axes when ax is omitted; it ends without
\* error, changes no other axes and adds or removes no collection.
C9_ClearFrameHidesOnlyItsTarget ==
    [][ret'.op = "clear_frame" =>
          LET t == IF ret'.arg # 0 THEN ret'.arg
                   ELSE IF current = 0 THEN Len(axes) + 1 ELSE current
          IN  /\ ret'.status = "ok"
              /\ ~axes'[t].xaxis
              /\ ~axes'[t].yaxis
              /\ \A s \in SpineNames : ~axes'[t].spines[s]
              /\ \A a \in 1..Len(axes) : a # t => axes'[a] = axes[a]
              /\ \A a \in 1..Len(axes') :
                   axes'[a].collections =
                       (IF a <= Len(axes) THEN axes[a].collections ELSE <<>>)
              /\ lcs' = lcs]_vars

C9_Witness ==
    /\ ret.op = "clear_frame"
    /\ ret.arg # 0
    /\ ret.arg # current
    /\ ~axes[ret.arg].xaxis
    /\ \A s \in SpineNames : ~axes[ret.arg].spines[s]
    /\ Len(axes[ret.arg].collections) > 0
    /\ axes[current].xaxis
    /\ \A s \in SpineNames : axes[current].spines[s]
    /\ Len(axes[current].collections) > 0

====
